---- MODULE Spec2Model ----
(***************************************************************************)
(* qmi-firmware-update command line front end (qfu-main.c): the two        *)
(* option callbacks parse_busnum_devnum / parse_vid_pid and the            *)
(* validation-and-dispatch sequence of main().                             *)
(*                                                                         *)
(* Numbers wider than TLC's integers are kept as little-endian sequences   *)
(* of 16-bit limbs: a guint is 2 limbs, a gulong is 2 limbs on an ILP32    *)
(* build and 4 limbs on an LP64 build.  Strings are sequences of           *)
(* one-character strings.                                                  *)
(***************************************************************************)
EXTENDS Integers, Sequences, FiniteSets, TLC

VARIABLES
    pc,                       \* position of main()
    ulong_limbs,              \* width of gulong in this build, in 16-bit limbs
    busnum, devnum,           \* static guint   (2 limbs each)
    vid, pid,                 \* static guint16
    cb,                       \* the last option callback invocation
    cb_calls,                 \* callbacks invoked so far by g_option_context_parse
    action_update_flag, action_update_qdl_flag,
    action_reset_flag, action_verify_flag,
    device_open_proxy_flag, device_open_qmi_flag,
    device_open_mbim_flag, device_open_auto_flag,
    version_flag, help_flag, help_examples_flag,
    image_strv,               \* positional arguments; <<>> is the NULL pointer
    modem_storage_index_int,  \* static gint
    n_actions, result, device_selection, device_open_flags,   \* locals of main()
    err,                      \* message printed with g_printerr, "" if none
    calls,                    \* operations invoked so far, with their arguments
    trace,                    \* steps of main() executed so far, in order
    exit_status

selvars  == <<busnum, devnum, vid, pid>>
flagvars == <<action_update_flag, action_update_qdl_flag, action_reset_flag,
              action_verify_flag, device_open_proxy_flag, device_open_qmi_flag,
              device_open_mbim_flag, device_open_auto_flag, version_flag,
              help_flag, help_examples_flag, image_strv, modem_storage_index_int>>
mainvars == <<n_actions, result, device_selection, device_open_flags, calls>>
vars     == <<pc, ulong_limbs, selvars, cb, cb_calls, flagvars, mainvars, err,
              trace, exit_status>>

NULL == "NULL"

(***************************************************************************)
(* Bounds of the model.                                                    *)
(***************************************************************************)
\* selection options (--busnum-devnum / --vid-pid) on one command line
MaxSelOpts == 2

(***************************************************************************)
(* Limb arithmetic.                                                        *)
(***************************************************************************)
LimbBase == 65536

Zero(n) == [i \in 1..n |-> 0]

AllOnes(n) == [i \in 1..n |-> LimbBase - 1]

IsZero(x) == \A i \in 1..Len(x) : x[i] = 0

\* x * m + c over the limbs of x; the carry out of the top limb is kept
RECURSIVE MulAddFrom(_, _, _, _)
MulAddFrom(x, i, m, c) ==
    IF i > Len(x) THEN [val |-> x, carry |-> c]
    ELSE LET t == x[i] * m + c
         IN  MulAddFrom([x EXCEPT ![i] = t % LimbBase], i + 1, m, t \div LimbBase)

MulAdd(x, m, c) == MulAddFrom(x, 1, m, c)

\* two's complement negation in the width of x
Negate(x) == MulAdd([i \in 1..Len(x) |-> LimbBase - 1 - x[i]], 1, 1).val

G_MAXUINT16 == 65535

\* aux > G_MAXUINT for a gulong aux
GtMaxUint(aux) == \E i \in 3..Len(aux) : aux[i] # 0

\* aux > G_MAXUINT16 for a gulong aux
GtMaxUint16(aux) == \E i \in 2..Len(aux) : aux[i] # 0

\* (guint) aux
ToGuint(aux) == SubSeq(aux, 1, 2)

\* (guint16) aux, also the implicit conversion of a guint stored in a guint16
ToGuint16(aux) == aux[1]

(***************************************************************************)
(* g_strsplit (value, ":", -1): the fields between the delimiters; the     *)
(* empty string gives the empty vector.                                    *)
(***************************************************************************)
RECURSIVE SplitFrom(_, _, _)
SplitFrom(s, i, cur) ==
    IF i > Len(s) THEN <<cur>>
    ELSE IF s[i] = ":" THEN <<cur>> \o SplitFrom(s, i + 1, <<>>)
    ELSE SplitFrom(s, i + 1, Append(cur, s[i]))

g_strsplit(value) == IF value = <<>> THEN <<>> ELSE SplitFrom(value, 1, <<>>)

(***************************************************************************)
(* strtoul (nptr, NULL, base) for base 10 and 16, in a gulong of w limbs:  *)
(* leading white space, an optional sign, an optional 0x prefix in base    *)
(* 16, then digits up to the first character that is not one; no digits    *)
(* give 0, a value that does not fit gives ULONG_MAX, a minus sign negates *)
(* the value in the unsigned type.                                         *)
(***************************************************************************)
DigitChars == <<"0", "1", "2", "3", "4", "5", "6", "7", "8", "9",
                "a", "b", "c", "d", "e", "f">>

UpperChars == <<"0", "1", "2", "3", "4", "5", "6", "7", "8", "9",
                "A", "B", "C", "D", "E", "F">>

\* value of character c as a digit, 99 if it is none
DigitVal(c) ==
    IF \E k \in 1..16 : DigitChars[k] = c
    THEN (CHOOSE k \in 1..16 : DigitChars[k] = c) - 1
    ELSE IF \E k \in 1..16 : UpperChars[k] = c
    THEN (CHOOSE k \in 1..16 : UpperChars[k] = c) - 1
    ELSE 99

RECURSIVE SkipSpace(_, _)
SkipSpace(s, i) == IF i <= Len(s) /\ s[i] = " " THEN SkipSpace(s, i + 1) ELSE i

RECURSIVE Accumulate(_, _, _, _, _)
Accumulate(s, i, base, acc, ovf) ==
    IF i > Len(s) \/ DigitVal(s[i]) >= base THEN [val |-> acc, ovf |-> ovf]
    ELSE LET r == MulAdd(acc, base, DigitVal(s[i]))
         IN  Accumulate(s, i + 1, base, r.val, ovf \/ r.carry # 0)

strtoul(s, base, w) ==
    LET i0  == SkipSpace(s, 1)
        neg == i0 <= Len(s) /\ s[i0] = "-"
        i1  == IF i0 <= Len(s) /\ s[i0] \in {"-", "+"} THEN i0 + 1 ELSE i0
        i2  == IF base = 16 /\ i1 + 1 <= Len(s) /\ s[i1] = "0" /\ s[i1 + 1] \in {"x", "X"}
               THEN i1 + 2 ELSE i1
        r   == Accumulate(s, i2, base, Zero(w), FALSE)
    IN  IF r.ovf THEN AllOnes(w)
        ELSE IF neg THEN Negate(r.val)
        ELSE r.val

(***************************************************************************)
(* parse_busnum_devnum: the outcome of one call on `value`, given the      *)
(* current busnum and devnum.  abort: g_assert (strv[0]) failed.           *)
(***************************************************************************)
BusnumInvalid(aux) == IsZero(aux) \/ GtMaxUint(aux)

DevnumInvalid(aux) == IsZero(aux) \/ GtMaxUint(aux)

busnum_devnum_eval(value, bus0, dev0, w) ==
    LET strv       == g_strsplit(value)
        two        == Len(strv) >= 2
        busnum_idx == IF two THEN 1 ELSE 0      \* 1-based; 0 is the source's -1
        devnum_idx == IF two THEN 2 ELSE 1
        baux       == strtoul(strv[busnum_idx], 10, w)
        daux       == strtoul(strv[devnum_idx], 10, w)
        fail(b, d, e) == [abort |-> FALSE, result |-> FALSE, busnum |-> b,
                          devnum |-> d, error |-> e]
    IN  IF Len(strv) = 0
        THEN [abort |-> TRUE, result |-> FALSE, busnum |-> bus0, devnum |-> dev0,
              error |-> "assertion failed: (strv[0])"]
        ELSE IF Len(strv) >= 3
        THEN fail(bus0, dev0, "invalid busnum-devnum string: too many fields")
        ELSE IF busnum_idx # 0 /\ BusnumInvalid(baux)
        THEN fail(bus0, dev0, "invalid bus number")
        ELSE LET b == IF busnum_idx # 0 THEN ToGuint(baux) ELSE bus0
             IN  IF DevnumInvalid(daux)
                 THEN fail(b, dev0, "invalid dev number")
                 ELSE [abort |-> FALSE, result |-> TRUE, busnum |-> b,
                       devnum |-> ToGuint(daux), error |-> ""]

(***************************************************************************)
(* parse_vid_pid: as above; the product id is parsed and stored first.     *)
(***************************************************************************)
PidInvalid(aux) == IsZero(aux) \/ GtMaxUint16(aux)

VidInvalid(aux) == IsZero(aux) \/ GtMaxUint16(aux)

vid_pid_eval(value, vid0, pid0, w) ==
    LET strv    == g_strsplit(value)
        vid_idx == 1
        pid_idx == IF Len(strv) >= 2 THEN 2 ELSE 0
        paux    == strtoul(strv[pid_idx], 16, w)
        vaux    == strtoul(strv[vid_idx], 16, w)
        fail(v, p, e) == [abort |-> FALSE, result |-> FALSE, vid |-> v,
                          pid |-> p, error |-> e]
    IN  IF Len(strv) = 0
        THEN [abort |-> TRUE, result |-> FALSE, vid |-> vid0, pid |-> pid0,
              error |-> "assertion failed: (strv[0])"]
        ELSE IF Len(strv) >= 3
        THEN fail(vid0, pid0, "invalid vid-pid string: too many fields")
        ELSE IF pid_idx # 0 /\ PidInvalid(paux)
        THEN fail(vid0, pid0, "invalid product id")
        ELSE LET p == IF pid_idx # 0 THEN ToGuint16(ToGuint(paux)) ELSE pid0
             IN  IF VidInvalid(vaux)
                 THEN fail(vid0, p, "invalid vendor id")
                 ELSE [abort |-> FALSE, result |-> TRUE, vid |-> ToGuint16(vaux),
                       pid |-> p, error |-> ""]

(***************************************************************************)
(* Inputs.                                                                 *)
(***************************************************************************)
\* builds: gulong is 32 bits wide (ILP32) or 64 bits wide (LP64)
UlongLimbs == {2, 4}

\* at most this many positional image arguments
MaxImages == 2

\* image_strv after parsing: NULL (the empty sequence here) without positional
\* arguments, else the list of them
NoImages == <<>>

ImageLists == {[i \in 1..n |-> i] : n \in 0..MaxImages}

\* values given to --modem-storage-index (0 when the option is absent)
StorageIndexValues == {-1, 0, 1, 255, 256}

\* values given to --busnum-devnum and --vid-pid on a command line of main()
MainBusDevTokens == { <<"1", ":", "2">>, <<"1", ":", "2", ":", "3">> }

MainVidPidTokens == { <<"1", "1", "9", "9", ":", "6", "8", "c", "0">> }

NoCall == [opt |-> "none", value |-> <<>>, result |-> FALSE, abort |-> FALSE]

(***************************************************************************)
(* State at the entry of main(): statics are zero, locals as initialised.  *)
(***************************************************************************)
Init ==
    /\ pc = "parse"
    /\ ulong_limbs \in UlongLimbs
    /\ busnum = Zero(2) /\ devnum = Zero(2)
    /\ vid = 0 /\ pid = 0
    /\ cb = NoCall /\ cb_calls = 0
    /\ action_update_flag = FALSE /\ action_update_qdl_flag = FALSE
    /\ action_reset_flag = FALSE /\ action_verify_flag = FALSE
    /\ device_open_proxy_flag = FALSE /\ device_open_qmi_flag = FALSE
    /\ device_open_mbim_flag = FALSE /\ device_open_auto_flag = FALSE
    /\ version_flag = FALSE /\ help_flag = FALSE /\ help_examples_flag = FALSE
    /\ image_strv = NoImages
    /\ modem_storage_index_int = 0
    /\ n_actions = 0
    /\ result = FALSE
    /\ device_selection = NULL
    /\ device_open_flags = {}
    /\ err = ""
    /\ calls = <<>>
    /\ trace = <<>>
    /\ exit_status = "running"

(***************************************************************************)
(* The option callbacks, called by g_option_context_parse for each         *)
(* --busnum-devnum / --vid-pid on the command line.  A callback that       *)
(* returns FALSE makes g_option_context_parse fail, and main() goes to     *)
(* out; a failed g_assert aborts the process.                              *)
(***************************************************************************)
AfterCallback(r) ==
    /\ pc' = IF r.abort THEN "aborted" ELSE IF r.result THEN "parse" ELSE "out"
    /\ err' = r.error
    /\ exit_status' = IF r.abort THEN "SIGABRT" ELSE exit_status
    /\ trace' = IF r.abort \/ r.result THEN trace ELSE Append(trace, "parse_error")
    /\ cb_calls' = cb_calls + 1

parse_busnum_devnum(value) ==
    /\ pc = "parse"
    /\ cb_calls < MaxSelOpts
    /\ LET r == busnum_devnum_eval(value, busnum, devnum, ulong_limbs)
       IN  /\ busnum' = r.busnum
           /\ devnum' = r.devnum
           /\ cb' = [opt |-> "busnum-devnum", value |-> value,
                     result |-> r.result, abort |-> r.abort]
           /\ AfterCallback(r)
    /\ UNCHANGED <<ulong_limbs, vid, pid, flagvars, mainvars>>

parse_vid_pid(value) ==
    /\ pc = "parse"
    /\ cb_calls < MaxSelOpts
    /\ LET r == vid_pid_eval(value, vid, pid, ulong_limbs)
       IN  /\ vid' = r.vid
           /\ pid' = r.pid
           /\ cb' = [opt |-> "vid-pid", value |-> value,
                     result |-> r.result, abort |-> r.abort]
           /\ AfterCallback(r)
    /\ UNCHANGED <<ulong_limbs, busnum, devnum, flagvars, mainvars>>

(***************************************************************************)
(* main(): g_option_context_parse fails for another reason (unknown        *)
(* option, missing or malformed argument).                                 *)
(***************************************************************************)
ParseError ==
    /\ pc = "parse"
    /\ pc' = "out"
    /\ err' = "couldn't parse option context"
    /\ trace' = Append(trace, "parse_error")
    /\ cb' = NoCall
    /\ UNCHANGED <<ulong_limbs, selvars, cb_calls, flagvars, mainvars, exit_status>>

(***************************************************************************)
(* main(): g_option_context_parse succeeds; the flag and argument statics  *)
(* hold what the command line gave.                                        *)
(***************************************************************************)
ParseDone ==
    /\ pc = "parse"
    /\ action_update_flag' \in BOOLEAN
    /\ action_update_qdl_flag' \in BOOLEAN
    /\ action_reset_flag' \in BOOLEAN
    /\ action_verify_flag' \in BOOLEAN
    /\ device_open_proxy_flag' \in BOOLEAN
    /\ device_open_qmi_flag' \in BOOLEAN
    /\ device_open_mbim_flag' \in BOOLEAN
    /\ device_open_auto_flag' \in BOOLEAN
    /\ version_flag' \in BOOLEAN
    /\ help_flag' \in BOOLEAN
    /\ help_examples_flag' \in BOOLEAN
    /\ image_strv' \in ImageLists
    /\ modem_storage_index_int' \in StorageIndexValues
    /\ pc' = "info"
    /\ trace' = Append(trace, "parse_ok")
    /\ cb' = NoCall
    /\ UNCHANGED <<ulong_limbs, selvars, cb_calls, mainvars, err, exit_status>>

(***************************************************************************)
(* main(): the decisions of the validation sequence, as functions of the   *)
(* statics.                                                                *)
(***************************************************************************)
G_MAXUINT8 == 255

B2N(b) == IF b THEN 1 ELSE 0

\* variant: the reset flag is left out of the sum
CountActionsNoReset(verify, update, update_qdl, reset) ==
    B2N(verify) + B2N(update) + B2N(update_qdl)

CountActions(verify, update, update_qdl, reset) ==
    B2N(verify) + B2N(update) + B2N(update_qdl) + B2N(reset)

\* variant: update-qdl is not among the actions that need images
ImagesMissingNoQdl(verify, update, update_qdl, images) ==
    (verify \/ update) /\ images = NoImages

ImagesMissing(verify, update, update_qdl, images) ==
    (verify \/ update \/ update_qdl) /\ images = NoImages

\* variant: device selection is made for every action
NeedsSelectionAlways(update, update_qdl, reset) == TRUE

NeedsSelection(update, update_qdl, reset) == update \/ update_qdl \/ reset

NeedsOpenFlags(update, reset) == update \/ reset

OpenFlagsInvalid(qmi, mbim, auto) == B2N(mbim) + B2N(qmi) + B2N(auto) > 1

\* variant: AUTO is not the default when no mode flag is given
OpenFlagsNoDefault(proxy, qmi, mbim, auto) ==
    (IF proxy THEN {"PROXY"} ELSE {})
        \cup (IF mbim THEN {"MBIM"} ELSE {})
        \cup (IF auto THEN {"AUTO"} ELSE {})

OpenFlags(proxy, qmi, mbim, auto) ==
    (IF proxy THEN {"PROXY"} ELSE {})
        \cup (IF mbim THEN {"MBIM"} ELSE {})
        \cup (IF auto \/ (~qmi /\ ~mbim) THEN {"AUTO"} ELSE {})

\* variant: the upper limit is off by one
StorageIndexInvalidOffByOne(index) == index < 0 \/ index > G_MAXUINT8 + 1

StorageIndexInvalid(index) == index < 0 \/ index > G_MAXUINT8

\* (guint8) modem_storage_index_int
ToGuint8(index) == index % 256

\* variant: the gboolean is returned as the exit status (TRUE is 1)
ExitCodeRaw(res) == IF res THEN "EXIT_FAILURE" ELSE "EXIT_SUCCESS"

ExitCode(res) == IF res THEN "EXIT_SUCCESS" ELSE "EXIT_FAILURE"

\* variant: the selection is never unreferenced
NeedsUnrefNever(selection) == FALSE

\* the handle is unreferenced at out
NeedsUnref(selection) == selection # NULL

\* variant: the message is printed but the goto out is missing
FailNoGoto(msg, step) ==
    /\ err' = msg
    /\ pc' = "run"
    /\ trace' = Append(trace, step)

Fail(msg, step) ==
    /\ err' = msg
    /\ pc' = "out"
    /\ trace' = Append(trace, step)

Pass(next, step) ==
    /\ err' = err
    /\ pc' = next
    /\ trace' = Append(trace, step)

(***************************************************************************)
(* main(): informational flags, then qfu_log_init.                         *)
(***************************************************************************)
PrintVersion ==
    /\ pc = "info"
    /\ version_flag
    /\ result' = TRUE
    /\ Pass("out", "print_version")
    /\ UNCHANGED <<ulong_limbs, selvars, cb, cb_calls, flagvars, n_actions,
                   device_selection, device_open_flags, calls, exit_status>>

PrintHelp ==
    /\ pc = "info"
    /\ ~version_flag /\ help_flag
    /\ result' = TRUE
    /\ Pass("out", "print_help")
    /\ UNCHANGED <<ulong_limbs, selvars, cb, cb_calls, flagvars, n_actions,
                   device_selection, device_open_flags, calls, exit_status>>

\* variant: the examples are printed and main() goes on
PrintHelpExamplesGoesOn ==
    /\ pc = "info"
    /\ ~version_flag /\ ~help_flag /\ help_examples_flag
    /\ result' = TRUE
    /\ Pass("actions", "print_help_examples")
    /\ UNCHANGED <<ulong_limbs, selvars, cb, cb_calls, flagvars, n_actions,
                   device_selection, device_open_flags, calls, exit_status>>

PrintHelpExamples ==
    /\ pc = "info"
    /\ ~version_flag /\ ~help_flag /\ help_examples_flag
    /\ result' = TRUE
    /\ Pass("out", "print_help_examples")
    /\ UNCHANGED <<ulong_limbs, selvars, cb, cb_calls, flagvars, n_actions,
                   device_selection, device_open_flags, calls, exit_status>>

LogInit ==
    /\ pc = "info"
    /\ ~version_flag /\ ~help_flag /\ ~help_examples_flag
    /\ Pass("actions", "log_init")
    /\ UNCHANGED <<ulong_limbs, selvars, cb, cb_calls, flagvars, mainvars, exit_status>>

(***************************************************************************)
(* main(): exactly one action.                                             *)
(***************************************************************************)
CheckActions ==
    /\ pc = "actions"
    /\ LET n == CountActions(action_verify_flag, action_update_flag,
                             action_update_qdl_flag, action_reset_flag)
       IN  /\ n_actions' = n
           /\ IF n = 0 THEN Fail("no actions specified", "check_actions")
              ELSE IF n > 1 THEN Fail("too many actions specified", "check_actions")
              ELSE Pass("images", "check_actions")
    /\ UNCHANGED <<ulong_limbs, selvars, cb, cb_calls, flagvars, result,
                   device_selection, device_open_flags, calls, exit_status>>

(***************************************************************************)
(* main(): images are required by verify, update and update-qdl.           *)
(***************************************************************************)
CheckImages ==
    /\ pc = "images"
    /\ IF ImagesMissing(action_verify_flag, action_update_flag,
                        action_update_qdl_flag, image_strv)
       THEN Fail("no firmware images specified", "check_images")
       ELSE Pass("select", "check_images")
    /\ UNCHANGED <<ulong_limbs, selvars, cb, cb_calls, flagvars, mainvars, exit_status>>

(***************************************************************************)
(* main(): qfu_device_selection_new for update, update-qdl and reset; the  *)
(* lookup either gives an object or fails with an error.                   *)
(***************************************************************************)
SelectDevice ==
    /\ pc = "select"
    /\ IF NeedsSelection(action_update_flag, action_update_qdl_flag, action_reset_flag)
       THEN \E found \in BOOLEAN :
               IF found
               THEN /\ device_selection' = "object"
                    /\ Pass("openflags", "select_device")
               ELSE /\ device_selection' = NULL
                    /\ Fail("couldn't select device", "select_device")
       ELSE /\ device_selection' = device_selection
            /\ pc' = "openflags"
            /\ UNCHANGED <<err, trace>>
    /\ UNCHANGED <<ulong_limbs, selvars, cb, cb_calls, flagvars, n_actions, result,
                   device_open_flags, calls, exit_status>>

(***************************************************************************)
(* main(): device open flags for update and reset.                         *)
(***************************************************************************)
ValidateOpenFlags ==
    /\ pc = "openflags"
    /\ IF NeedsOpenFlags(action_update_flag, action_reset_flag)
       THEN IF OpenFlagsInvalid(device_open_qmi_flag, device_open_mbim_flag,
                                device_open_auto_flag)
            THEN /\ device_open_flags' = device_open_flags
                 /\ Fail("cannot specify multiple mode flags to open device",
                         "check_open_flags")
            ELSE /\ device_open_flags' = OpenFlags(device_open_proxy_flag,
                                                   device_open_qmi_flag,
                                                   device_open_mbim_flag,
                                                   device_open_auto_flag)
                 /\ Pass("run", "check_open_flags")
       ELSE /\ device_open_flags' = device_open_flags
            /\ pc' = "run"
            /\ UNCHANGED <<err, trace>>
    /\ UNCHANGED <<ulong_limbs, selvars, cb, cb_calls, flagvars, n_actions, result,
                   device_selection, calls, exit_status>>

(***************************************************************************)
(* main(): run.  Each operation is a blocking call; OperationReturns is    *)
(* its return with the operation's gboolean.                               *)
(***************************************************************************)
Invoke(op, images, selection, flags, index) ==
    /\ calls' = Append(calls, [op |-> op, images |-> images, selection |-> selection,
                               open_flags |-> flags, storage_index |-> index])
    /\ pc' = "in_operation"
    /\ err' = err

RunUpdate ==
    /\ pc = "run"
    /\ action_update_flag
    /\ IF StorageIndexInvalid(modem_storage_index_int)
       THEN /\ Fail("invalid modem storage index", "check_storage_index")
            /\ calls' = calls
       ELSE /\ Invoke("update", image_strv, device_selection, device_open_flags,
                      ToGuint8(modem_storage_index_int))
            /\ trace' = trace \o <<"check_storage_index", "run_update">>
    /\ UNCHANGED <<ulong_limbs, selvars, cb, cb_calls, flagvars, n_actions, result,
                   device_selection, device_open_flags, exit_status>>

RunUpdateQdl ==
    /\ pc = "run"
    /\ ~action_update_flag /\ action_update_qdl_flag
    /\ Invoke("update_qdl", image_strv, device_selection, {}, 0)
    /\ trace' = Append(trace, "run_update_qdl")
    /\ UNCHANGED <<ulong_limbs, selvars, cb, cb_calls, flagvars, n_actions, result,
                   device_selection, device_open_flags, exit_status>>

RunReset ==
    /\ pc = "run"
    /\ ~action_update_flag /\ ~action_update_qdl_flag /\ action_reset_flag
    /\ Invoke("reset", NoImages, device_selection, device_open_flags, 0)
    /\ trace' = Append(trace, "run_reset")
    /\ UNCHANGED <<ulong_limbs, selvars, cb, cb_calls, flagvars, n_actions, result,
                   device_selection, device_open_flags, exit_status>>

RunVerify ==
    /\ pc = "run"
    /\ ~action_update_flag /\ ~action_update_qdl_flag /\ ~action_reset_flag
    /\ action_verify_flag
    /\ Invoke("verify", image_strv, NULL, {}, 0)
    /\ trace' = Append(trace, "run_verify")
    /\ UNCHANGED <<ulong_limbs, selvars, cb, cb_calls, flagvars, n_actions, result,
                   device_selection, device_open_flags, exit_status>>

OperationReturns ==
    /\ pc = "in_operation"
    /\ \E r \in BOOLEAN :
          /\ result' = r
          /\ Pass("out", IF r THEN "operation_returns_true" ELSE "operation_returns_false")
    /\ UNCHANGED <<ulong_limbs, selvars, cb, cb_calls, flagvars, n_actions,
                   device_selection, device_open_flags, calls, exit_status>>

(***************************************************************************)
(* main(): out.  qfu_log_shutdown, g_object_unref of the selection if      *)
(* there is one, and the exit status from result.                          *)
(***************************************************************************)
Out ==
    /\ pc = "out"
    /\ IF NeedsUnref(device_selection)
       THEN /\ device_selection' = "released"
            /\ trace' = trace \o <<"log_shutdown", "unref", "exit">>
       ELSE /\ device_selection' = device_selection
            /\ trace' = trace \o <<"log_shutdown", "exit">>
    /\ exit_status' = ExitCode(result)
    /\ pc' = "done"
    /\ UNCHANGED <<ulong_limbs, selvars, cb, cb_calls, flagvars, n_actions, result,
                   device_open_flags, calls, err>>

Next ==
    \/ \E value \in MainBusDevTokens : parse_busnum_devnum(value)
    \/ \E value \in MainVidPidTokens : parse_vid_pid(value)
    \/ ParseError
    \/ ParseDone
    \/ PrintVersion
    \/ PrintHelp
    \/ PrintHelpExamples
    \/ LogInit
    \/ CheckActions
    \/ CheckImages
    \/ SelectDevice
    \/ ValidateOpenFlags
    \/ RunUpdate
    \/ RunUpdateQdl
    \/ RunReset
    \/ RunVerify
    \/ OperationReturns
    \/ Out

Spec == Init /\ [][Next]_vars

(***************************************************************************)
(* The option callbacks alone, on a wider set of option values: every      *)
(* behaviour is a sequence of callback invocations as made by one          *)
(* g_option_context_parse.                                                 *)
(***************************************************************************)
BusDevTokens ==
    { <<"5">>,
      <<"1", ":", "2">>,
      <<"1", ":", "2", ":", "3">>,
      <<"0">>,
      <<"1", ":", "0">>,
      <<"0", ":", "1">>,
      <<>>,
      <<":", "5">>,
      <<"5", ":">>,
      <<"4", "2", "9", "4", "9", "6", "7", "2", "9", "5">>,
      <<"4", "2", "9", "4", "9", "6", "7", "2", "9", "6">>,
      <<"6", "5", "5", "3", "6", ":", "4", "2", "9", "4", "9", "6", "7", "2", "9", "5">>,
      <<"4", "2", "9", "4", "9", "6", "7", "2", "9", "5", ":", "6", "5", "5", "3", "6">>,
      <<"1", "8", "4", "4", "6", "7", "4", "4", "0", "7", "3", "7", "0", "9", "5", "5", "1", "6", "1", "6">>,
      <<"-", "1">>,
      <<"1", "2", "a", "b">>,
      <<" ", "7">>,
      <<"a", "b", "c">>,
      <<"2", ":", "4", "2", "9", "4", "9", "6", "7", "2", "9", "6">> }

VidPidTokens ==
    { <<"1", "1", "9", "9", ":", "6", "8", "c", "0">>,
      <<"1", "1", "9", "9">>,
      <<"0">>,
      <<"f", "f", "f", "f">>,
      <<"1", "0", "0", "0", "0">>,
      <<"1", ":", "2", ":", "3">>,
      <<"0", "x", "1", "0">>,
      <<"1", "1", "9", "9", ":", "0">>,
      <<"0", ":", "6", "8", "c", "0">>,
      <<"F", "F", "F", "F", ":", "f", "f", "f", "f">>,
      <<"1", "1", "9", "9", ":", "1", "0", "0", "0", "0">>,
      <<>>,
      <<"z", "z">>,
      <<"1", "0", "0", "0", "0", "0", "0", "0", "0">>,
      <<"-", "1">>,
      <<"1", "a">> }

ParserNext ==
    \/ \E value \in BusDevTokens : parse_busnum_devnum(value)
    \/ \E value \in VidPidTokens : parse_vid_pid(value)

ParserSpec == Init /\ [][ParserNext]_vars

(***************************************************************************)
(* Properties of main().                                                   *)
(***************************************************************************)
Has(step) == \E i \in 1..Len(trace) : trace[i] = step

Count(step) == Cardinality({i \in 1..Len(trace) : trace[i] = step})

\* position of the first occurrence of step in trace, 0 if there is none
First(step) == IF Has(step) THEN CHOOSE i \in 1..Len(trace) :
                                     trace[i] = step /\ \A j \in 1..(i - 1) : trace[j] # step
               ELSE 0

Finished == pc = "done"

\* the actions requested on the command line
Requested ==
    (IF action_update_flag THEN {"update"} ELSE {})
        \cup (IF action_update_qdl_flag THEN {"update_qdl"} ELSE {})
        \cup (IF action_reset_flag THEN {"reset"} ELSE {})
        \cup (IF action_verify_flag THEN {"verify"} ELSE {})

InfoRequested == version_flag \/ help_flag \/ help_examples_flag

InfoHandled == Has("print_version") \/ Has("print_help") \/ Has("print_help_examples")

ModeFlags ==
    (IF device_open_qmi_flag THEN {"qmi"} ELSE {})
        \cup (IF device_open_mbim_flag THEN {"mbim"} ELSE {})
        \cup (IF device_open_auto_flag THEN {"auto"} ELSE {})

ValidationSteps == {"check_actions", "check_images", "select_device",
                    "check_open_flags", "check_storage_index"}

RunSteps == {"run_update", "run_update_qdl", "run_reset", "run_verify"}

MsgNoActions == "no actions specified"

MsgTooMany == "too many actions specified"

MsgNoImages == "no firmware images specified"

MsgSelect == "couldn't select device"

MsgModes == "cannot specify multiple mode flags to open device"

MsgIndex == "invalid modem storage index"

\* C1: on a run whose options parsed and that has no informational flag, the
\* action check is made, and it passes exactly when exactly one of the four
\* action flags is true; with none it fails with "no actions specified", with
\* two or more with "too many actions specified".
C1_ActionCardinality ==
    /\ (Finished /\ Has("parse_ok") /\ ~InfoRequested) => Has("check_actions")
    /\ Has("check_actions") =>
          /\ Has("parse_ok") /\ ~InfoRequested
          /\ Cardinality(Requested) = 0 => err = MsgNoActions /\ pc \in {"out", "done"}
          /\ Cardinality(Requested) >= 2 => err = MsgTooMany /\ pc \in {"out", "done"}
          /\ Cardinality(Requested) = 1 => err \notin {MsgNoActions, MsgTooMany}
          /\ (Cardinality(Requested) = 1 /\ Finished) => Has("check_images")

C1_Witness ==
    /\ Finished /\ err = MsgTooMany
    /\ Requested = {"update", "reset"}

\* C2: at most one operation is invoked in a run; it is the operation of the
\* single requested action; and it is invoked only when no validation step
\* failed: options parsed, one action, images present where required, device
\* selected where required, no two mode flags, storage index in range.
C2_AtMostOneOperation ==
    /\ Len(calls) <= 1
    /\ err # "" => calls = <<>>
    /\ Has("parse_error") => calls = <<>>
    /\ calls # <<>> =>
          /\ Requested = {calls[1].op}
          /\ calls[1].op \in {"update", "update_qdl", "verify"} => image_strv # NoImages
          /\ calls[1].op \in {"update", "update_qdl", "reset"} =>
                 Has("select_device") /\ calls[1].selection = "object"
          /\ calls[1].op \in {"update", "reset"} => Cardinality(ModeFlags) <= 1
          /\ calls[1].op = "update" => modem_storage_index_int \in 0..255

C2_Witness ==
    /\ Finished /\ Len(calls) = 1 /\ calls[1].op = "reset"
    /\ Requested = {"reset"}

\* C3: the exit status is success exactly when an informational flag was
\* handled or the invoked operation returned TRUE; every validation error and
\* an operation that returns FALSE give failure.
C3_ExitStatus ==
    /\ Finished =>
          /\ exit_status \in {"EXIT_SUCCESS", "EXIT_FAILURE"}
          /\ exit_status = "EXIT_SUCCESS" <=>
                 (InfoHandled \/ Has("operation_returns_true"))
          /\ err # "" => exit_status = "EXIT_FAILURE"
          /\ Has("operation_returns_false") => exit_status = "EXIT_FAILURE"
    /\ ~Finished => exit_status # "EXIT_SUCCESS"

C3_Witness ==
    /\ Finished /\ Has("operation_returns_false") /\ exit_status = "EXIT_FAILURE"
    /\ calls # <<>>

\* C4: for update and reset, once images and device selection passed, the
\* open flags are checked: the run fails with the mode-flags message exactly
\* when more than one of qmi, mbim, auto is set; otherwise the flags given to
\* the operation have PROXY iff proxy, MBIM iff mbim, AUTO iff auto or
\* neither qmi nor mbim, so at most one of MBIM and AUTO.  For verify and
\* update-qdl the four flags are not looked at.
C4_OpenPolicy ==
    LET single == Cardinality(Requested) = 1
        needs  == single /\ Requested \subseteq {"update", "reset"}
        expect == (IF device_open_proxy_flag THEN {"PROXY"} ELSE {})
                      \cup (IF device_open_mbim_flag THEN {"MBIM"} ELSE {})
                      \cup (IF device_open_auto_flag
                               \/ (~device_open_qmi_flag /\ ~device_open_mbim_flag)
                            THEN {"AUTO"} ELSE {})
    IN  /\ Has("check_open_flags") =>
              /\ needs
              /\ err = MsgModes <=> Cardinality(ModeFlags) > 1
              /\ Cardinality(ModeFlags) > 1 => pc \in {"out", "done"} /\ calls = <<>>
              /\ Cardinality(ModeFlags) <= 1 => device_open_flags = expect
        /\ (needs /\ Has("select_device") /\ err # MsgSelect
                  /\ pc \in {"run", "in_operation", "out", "done"}) =>
              Has("check_open_flags")
        /\ ~needs => ~Has("check_open_flags") /\ err # MsgModes /\ device_open_flags = {}
        /\ Cardinality(device_open_flags \cap {"MBIM", "AUTO"}) <= 1
        /\ (calls # <<>> /\ calls[1].op \in {"update", "reset"}) =>
              calls[1].open_flags = expect

C4_Witness ==
    /\ Finished /\ calls # <<>> /\ calls[1].op = "update"
    /\ device_open_proxy_flag /\ ModeFlags = {}
    /\ calls[1].open_flags = {"PROXY", "AUTO"}

\* C5: for update, a storage index in 0..255 is accepted and given to the
\* update operation unchanged; a value below 0 or above 255 fails with the
\* storage-index message and the operation is not invoked; for the other
\* three actions the index is never checked and never fails the run.
C5_StorageIndex ==
    LET index == modem_storage_index_int
    IN  /\ Has("check_storage_index") =>
              /\ Requested = {"update"}
              /\ err = MsgIndex <=> index \notin 0..255
              /\ index \notin 0..255 => calls = <<>> /\ pc \in {"out", "done"}
              /\ index \in 0..255 =>
                     /\ Len(calls) = 1
                     /\ calls[1].op = "update"
                     /\ calls[1].storage_index = index
        /\ (Requested = {"update"} /\ Has("check_open_flags") /\ err # MsgModes
                /\ pc \in {"in_operation", "out", "done"}) => Has("check_storage_index")
        /\ Requested # {"update"} => ~Has("check_storage_index") /\ err # MsgIndex

C5_Witness ==
    /\ Finished /\ modem_storage_index_int = 255
    /\ calls # <<>> /\ calls[1].op = "update" /\ calls[1].storage_index = 255

\* C6: when the single requested action is verify, update or update-qdl and
\* there is no positional image, the run fails with the no-images message and
\* no operation is invoked; reset never fails for lack of images; an invoked
\* update, update-qdl or verify operation gets a non-empty image list.
C6_ImagesRequired ==
    /\ (Has("check_images") /\ Requested \subseteq {"verify", "update", "update_qdl"}
            /\ image_strv = NoImages) =>
          err = MsgNoImages /\ calls = <<>> /\ pc \in {"out", "done"}
    /\ (Finished /\ Has("check_actions") /\ Cardinality(Requested) = 1) =>
          Has("check_images")
    /\ err = MsgNoImages =>
          image_strv = NoImages /\ Requested \cap {"verify", "update", "update_qdl"} # {}
    /\ Requested = {"reset"} => err # MsgNoImages
    /\ (calls # <<>> /\ calls[1].op \in {"update", "update_qdl", "verify"}) =>
          Len(calls[1].images) >= 1 /\ calls[1].images = image_strv

C6_Witness ==
    /\ Finished /\ Requested = {"update_qdl"} /\ image_strv = NoImages
    /\ err = MsgNoImages /\ calls = <<>>

\* C7: when one of version_flag, help_flag, help_examples_flag is set, the
\* run makes no action, image, device or open-flags check and invokes no
\* operation, and it ends with success, whatever the other flags are.
C7_InfoShortCircuit ==
    InfoRequested =>
        /\ \A i \in 1..Len(trace) : trace[i] \notin ValidationSteps \cup RunSteps
        /\ calls = <<>> /\ device_selection = NULL /\ err = ""
        /\ pc \in {"info", "out", "done"}
        /\ pc \in {"out", "done"} => InfoHandled /\ result
        /\ Finished => exit_status = "EXIT_SUCCESS"

C7_Witness ==
    /\ Finished /\ help_examples_flag /\ ~version_flag /\ ~help_flag
    /\ Requested = {"update", "reset"} /\ Cardinality(ModeFlags) = 3
    /\ image_strv = NoImages /\ exit_status = "EXIT_SUCCESS"

\* C8: a device selection that was acquired is released exactly once before
\* the process exits, on every path (operation returned TRUE or FALSE, mode
\* flags error, storage index error); the release comes after the return of
\* the operation if one was invoked, and nothing uses the selection after it.
Acquired == Has("select_device") /\ err # MsgSelect

C8_HandleReleased ==
    /\ Count("unref") <= 1
    /\ Has("unref") => Acquired /\ device_selection = "released"
    /\ (Acquired /\ ~Has("unref")) => device_selection = "object"
    /\ (Finished /\ Acquired) => Count("unref") = 1
    /\ (Has("unref") /\ calls # <<>>) =>
          \E i \in 1..Len(trace) :
              /\ trace[i] \in {"operation_returns_true", "operation_returns_false"}
              /\ i < First("unref")
    /\ Has("unref") =>
          \A i \in 1..Len(trace) :
              trace[i] \in RunSteps \cup {"select_device", "check_open_flags"} =>
                  i < First("unref")
    /\ \A i \in 1..Len(calls) : calls[i].selection # "released"
    /\ pc = "in_operation" => device_selection # "released"

C8_Witness ==
    /\ Finished /\ Acquired /\ err = MsgIndex
    /\ Count("unref") = 1 /\ device_selection = "released"

(***************************************************************************)
(* Properties of the option callbacks.  Numerals are read here without     *)
(* strtoul: a guint is rendered in decimal by repeated division, and       *)
(* ranges are compared on the digits.                                      *)
(***************************************************************************)
DecChars == {"0", "1", "2", "3", "4", "5", "6", "7", "8", "9"}

HexChars == DecChars \cup {"a", "b", "c", "d", "e", "f", "A", "B", "C", "D", "E", "F"}

\* a number written in the digits of chars, without sign, prefix or leading zero
IsNumeral(f, chars) ==
    /\ Len(f) >= 1
    /\ \A i \in 1..Len(f) : f[i] \in chars
    /\ f[1] # "0"

\* a non-empty run of zeros
IsZeroNumeral(f) == Len(f) >= 1 /\ \A i \in 1..Len(f) : f[i] = "0"

\* f <= g for decimal numerals of equal length
RECURSIVE LexLE(_, _, _)
LexLE(f, g, i) ==
    IF i > Len(f) THEN TRUE
    ELSE IF f[i] = g[i] THEN LexLE(f, g, i + 1)
    ELSE DigitVal(f[i]) < DigitVal(g[i])

MaxUintDec == <<"4", "2", "9", "4", "9", "6", "7", "2", "9", "5">>

\* decimal numeral in 1..2^32-1
DecInRange(f) ==
    /\ IsNumeral(f, DecChars)
    /\ Len(f) < 10 \/ (Len(f) = 10 /\ LexLE(f, MaxUintDec, 1))

\* decimal numeral above 2^32-1
DecTooBig(f) == IsNumeral(f, DecChars) /\ ~DecInRange(f)

\* hexadecimal numeral above 0xFFFF
HexTooBig(f) == IsNumeral(f, HexChars) /\ Len(f) > 4

\* a guint in decimal
RECURSIVE FormatDec(_)
FormatDec(x) ==
    IF IsZero(x) THEN <<>>
    ELSE LET t == (x[2] % 10) * LimbBase + x[1]
         IN  Append(FormatDec(<<t \div 10, x[2] \div 10>>), DigitChars[(t % 10) + 1])

FormatUint(x) == IF IsZero(x) THEN <<"0">> ELSE FormatDec(x)

\* the pieces of the option values, as candidates for their fields
Pieces(tokens) ==
    {SubSeq(t, i, j) : <<t, i, j>> \in
        {<<t, i, j>> \in tokens \X (1..20) \X (1..20) : i <= j /\ j <= Len(t)}}

NoColon(f) == \A i \in 1..Len(f) : f[i] # ":"

BusDevFields == {f \in Pieces(BusDevTokens) : NoColon(f)} \cup {<<>>}

VidPidFields == {f \in Pieces(VidPidTokens) : NoColon(f)} \cup {<<>>}

Colons(value) == Cardinality({i \in 1..Len(value) : value[i] = ":"})

Pair(f, g) == f \o <<":">> \o g

Called(opt) == cb.opt = opt /\ ~cb.abort

\* C9: after parse_busnum_devnum on "B:D" with B and D in 1..2^32-1 the call
\* succeeded, busnum = B and devnum = D; after a call on "D" alone the call
\* succeeded, busnum is 0 and devnum = D, also when an earlier call of the
\* same run had set busnum.
C9_BusDevResult ==
    Called("busnum-devnum") =>
        /\ \A B, D \in BusDevFields :
              (DecInRange(B) /\ DecInRange(D) /\ cb.value = Pair(B, D)) =>
                  cb.result /\ FormatUint(busnum) = B /\ FormatUint(devnum) = D
        /\ \A D \in BusDevFields :
              (DecInRange(D) /\ cb.value = D) =>
                  cb.result /\ IsZero(busnum) /\ FormatUint(devnum) = D

\* C10: both callbacks fail on a value with more than two fields, on a field
\* that is zero, and on a field above the width of its destination (2^32-1
\* for busnum and devnum, 0xFFFF for vid and pid); a value stored by a call
\* that succeeded is not 0 and is the value of its field.
C10_ParsersReject ==
    /\ (Called("busnum-devnum") \/ Called("vid-pid")) =>
          /\ Colons(cb.value) >= 2 => ~cb.result
          /\ \A f, g \in (IF cb.opt = "vid-pid" THEN VidPidFields ELSE BusDevFields) :
                (cb.value \in {f, Pair(f, g), Pair(g, f)} /\ IsZeroNumeral(f)) => ~cb.result
    /\ Called("busnum-devnum") =>
          /\ \A f, g \in BusDevFields :
                (cb.value \in {f, Pair(f, g), Pair(g, f)} /\ DecTooBig(f)) => ~cb.result
          /\ cb.result => ~IsZero(devnum)
          /\ (cb.result /\ Colons(cb.value) = 1) => ~IsZero(busnum)
          /\ \A B, D \in BusDevFields :
                (cb.result /\ IsNumeral(B, DecChars) /\ IsNumeral(D, DecChars)) =>
                    /\ cb.value = D => FormatUint(devnum) = D
                    /\ cb.value = Pair(B, D) =>
                           FormatUint(busnum) = B /\ FormatUint(devnum) = D
    /\ Called("vid-pid") =>
          /\ \A f, g \in VidPidFields :
                (cb.value \in {f, Pair(f, g), Pair(g, f)} /\ HexTooBig(f)) => ~cb.result
          /\ cb.result => vid \in 1..G_MAXUINT16
          /\ (cb.result /\ Colons(cb.value) = 1) => pid \in 1..G_MAXUINT16

\* C11: qfu_log_init and qfu_log_shutdown bracket the validation and
\* dispatch: log_init comes before the first validation step, log_shutdown
\* after the last step, and log_shutdown is executed only in a run in which
\* log_init was executed before it, also in a run that ends on an option
\* parsing error or on an informational flag.
C11_LogBracket ==
    /\ \A i \in 1..Len(trace) :
          trace[i] \in ValidationSteps \cup RunSteps =>
              /\ Has("log_init") /\ First("log_init") < i
              /\ Has("log_shutdown") => i < First("log_shutdown")
    /\ Count("log_init") <= 1 /\ Count("log_shutdown") <= 1
    /\ Has("log_shutdown") =>
          Has("log_init") /\ First("log_init") < First("log_shutdown")

\* C12: a call of parse_busnum_devnum or parse_vid_pid that returns FALSE
\* leaves busnum, devnum, vid and pid as they were before the call, also
\* when one field of a two-field value was valid and the other was not.
C12_NoPartialState ==
    [][(cb_calls' = cb_calls + 1 /\ ~cb'.result /\ ~cb'.abort)
           => selvars' = selvars]_vars

\* C13: qfu_device_selection_new is called at most once in a run, only after
\* the action check and the image check passed and only when the single
\* action is update, update-qdl or reset; a run with no or several actions, a
\* run without the images it needs and a verify run never call it; when it
\* fails the run ends before the open flags are checked and before any
\* operation.
C13_DeviceResolution ==
    /\ Count("select_device") <= 1
    /\ Has("select_device") =>
          /\ Has("check_actions") /\ Has("check_images")
          /\ First("check_actions") < First("check_images")
          /\ First("check_images") < First("select_device")
          /\ Cardinality(Requested) = 1
          /\ Requested \subseteq {"update", "update_qdl", "reset"}
          /\ Requested # {"reset"} => image_strv # NoImages
    /\ (Finished /\ Has("check_images") /\ err # MsgNoImages
            /\ Requested \subseteq {"update", "update_qdl", "reset"}) =>
          Has("select_device")
    /\ err \in {MsgNoActions, MsgTooMany, MsgNoImages} => ~Has("select_device")
    /\ Requested = {"verify"} => ~Has("select_device") /\ device_selection = NULL
    /\ err = MsgSelect =>
          /\ Has("select_device") /\ pc \in {"out", "done"}
          /\ ~Has("check_open_flags") /\ ~Has("check_storage_index")
          /\ calls = <<>> /\ device_selection = NULL
          /\ Finished => exit_status = "EXIT_FAILURE"

C13_Witness ==
    /\ Finished /\ err = MsgSelect /\ Requested = {"update"}
    /\ Count("select_device") = 1 /\ ~IsZero(devnum) /\ Cardinality(ModeFlags) = 2

====
